---------------------------- MODULE Spec2Model ----------------------------
(***************************************************************************)
(* A model of youtube_dl/extractor/contar.py: the cont.ar extractors.      *)
(*                                                                         *)
(* ContarBaseIE holds the session (the bearer token obtained by            *)
(* _real_initialize), the API call with its error unwrapping, and the      *)
(* construction of one item from a raw episode.  ContarIE, ContarSerieIE,  *)
(* ContarChannelIE and ContarBrowseIE are the four resolution modes.       *)
(*                                                                         *)
(* Python values are modelled as follows.  A JSON scalar is a tagged       *)
(* record (Null, Int(n), Str(s)) so that truthiness and int_or_none can be *)
(* computed as Python computes them.  A dict of headers is a function from *)
(* header names to strings.  A function's mutable default argument is a    *)
(* variable of the model: it is one object for the life of the process.    *)
(***************************************************************************)
EXTENDS Naturals, Sequences, FiniteSets, TLC

VARIABLES
    ie,                 \* the class of the current extractor instance
    login,              \* the e-mail _get_login_info returns for it, or NoLogin
    auth_token,         \* self._auth_token, or Unset before it is assigned
    ready,              \* the instance has been initialized
    serie_headers,      \* the default `headers={}` object of _get_serie_info
    status,             \* "idle" | "Assembled" | "Failed": the operation's end
    error,              \* the error raised by the operation, when Failed
    result,             \* what the operation returned, when Assembled
    log,                \* the HTTP requests of the operation, in order
    serie_info,         \* ContarSerieIE._real_extract's fetched SeriesInfo
    listing,            \* the `list` the channel or genre extraction walked
    ok_urls,            \* the manifest URLs that can be parsed
    subs_in,            \* _get_subtitles: the descriptors given
    subs_out,           \* _get_subtitles: what it returned, or Pending
    fmt_in,             \* _get_formats: the stream descriptors given
    fmt_ok,             \* _get_formats: per descriptor, whether its manifest parses
    fmt_out             \* _get_formats: what it returned or raised, or Pending

vars == <<ie, login, auth_token, ready, serie_headers, status, error, result,
          log, serie_info, listing, ok_urls, subs_in, subs_out, fmt_in, fmt_ok,
          fmt_out>>

sessionVars == <<ie, login, auth_token, ready, serie_headers, status, error,
                 result, log, serie_info, listing, ok_urls>>
subsVars == <<subs_in, subs_out>>
fmtVars == <<fmt_in, fmt_ok, fmt_out>>

---------------------------------------------------------------------------
(* Bounds of the model. *)

MaxSeasons == 2         \* seasons in a SeriesInfo
MaxEpisodes == 3        \* episodes in a SeriesInfo, over all its seasons
MaxList == 2            \* resources in a channel or genre listing
MaxSubs == 3            \* subtitle descriptors of one episode
MaxStreams == 3         \* stream descriptors of one episode

---------------------------------------------------------------------------
(* JSON scalars and Python's view of them. *)

Null == [t |-> "null", n |-> 0, s |-> ""]
Int(n) == [t |-> "int", n |-> n, s |-> ""]
Str(s) == [t |-> "str", n |-> 0, s |-> s]

\* bool(v): None, 0 and '' are false.
Truthy(v) ==
    CASE v.t = "null" -> FALSE
      [] v.t = "int" -> v.n # 0
      [] v.t = "str" -> v.s # ""

\* The strings int() accepts, among those the model uses.
Numeric == [s \in {"2"} |-> 2]

\* utils.int_or_none: None and '' give None, what int() rejects gives None.
int_or_none(v) ==
    CASE v.t = "int" -> v
      [] v.t = "str" /\ v.s \in DOMAIN Numeric -> Int(Numeric[v.s])
      [] OTHER -> Null

\* A dict with string keys.
EmptyDict == [k \in {} |-> ""]
SetItem(d, k, v) == [x \in (DOMAIN d) \cup {k} |-> IF x = k THEN v ELSE d[x]]

RECURSIVE Join(_)
\* ', '.join(values)
Join(values) ==
    IF Len(values) = 0 THEN ""
    ELSE IF Len(values) = 1 THEN values[1]
    ELSE values[1] \o ", " \o Join(Tail(values))

---------------------------------------------------------------------------
(* Errors. *)

NoError == [kind |-> "none", text |-> ""]
ApiError(text) == [kind |-> "api", text |-> text]
\* _download_json failed (it is fatal by default): network or parse failure.
DownloadError == [kind |-> "download", text |-> "Unable to download JSON metadata"]
\* result['data'] or result['token'] on an envelope without that key.
KeyError(key) == [kind |-> "KeyError", text |-> key]
\* self._auth_token read before _real_initialize assigned it.
AttributeError == [kind |-> "AttributeError", text |-> "_auth_token"]
\* InfoExtractor.raise_login_required
LoginRequired == [kind |-> "login_required", text |-> "login required"]
\* an optional argument a failing call passed on: fatal=True manifest download
ManifestError == [kind |-> "manifest", text |-> "Failed to download manifest"]

---------------------------------------------------------------------------
(* The API envelope. *)

\* error.message: absent, a string, or a mapping of named sub-errors (its
\* values in the dict's iteration order).
NoMessage == [t |-> "none", s |-> "", vals |-> <<>>]
StrMessage(s) == [t |-> "str", s |-> s, vals |-> <<>>]
MapMessage(vals) == [t |-> "map", s |-> "", vals |-> vals]

Messages ==
    { NoMessage, StrMessage(""), StrMessage("bad"), MapMessage(<<>>),
      MapMessage(<<"bad", "worse">>) }

\* Python's `if error:` for such a value.
MessageTruthy(m) ==
    \/ m.t = "str" /\ m.s # ""
    \/ m.t = "map" /\ Len(m.vals) > 0

\* What _download_json gives for a resource: a failure, or an envelope with
\* an optional error message and an optional data field.  Every payload
\* comes in a plain envelope, and one of them, `one`, with every message.
Responses(payloads, one) ==
    { [net |-> "fail", msg |-> NoMessage, hasData |-> FALSE, data |-> Null] }
    \cup { [net |-> "ok", msg |-> m, hasData |-> FALSE, data |-> Null] :
             m \in Messages }
    \cup { [net |-> "ok", msg |-> m, hasData |-> TRUE, data |-> one] :
             m \in Messages }
    \cup { [net |-> "ok", msg |-> NoMessage, hasData |-> TRUE, data |-> d] :
             d \in payloads }

\* IE_NAME of each extractor class.
IE_NAMES == {"Contar", "ContarSerie", "ContarChannel", "ContarBrowse"}

_API_BASE == "https://api.cont.ar/api/v2/"

\* The text _handle_errors raises for a message.
Said(name, msg) ==
    name \o " said: " \o (IF msg.t = "map" THEN Join(msg.vals) ELSE msg.s)

\* The mutant: the message is raised whenever the key is there, empty or not.
_handle_errors_AnyMessage(name, envelope) ==
    IF envelope.msg.t # "none"
    THEN [raised |-> TRUE, err |-> ApiError(Said(name, envelope.msg))]
    ELSE [raised |-> FALSE, err |-> NoError]

_handle_errors(name, envelope) ==
    IF MessageTruthy(envelope.msg)
    THEN [raised |-> TRUE, err |-> ApiError(Said(name, envelope.msg))]
    ELSE [raised |-> FALSE, err |-> NoError]

Unset == "<unset>"

\* One entry of the log: the request as sent, the headers the caller of
\* the API call supplied, and what became of the response.
Sent(method, url, headers, supplied, msg, out) ==
    [method |-> method, url |-> url, headers |-> headers,
     supplied |-> supplied, msg |-> msg, out |-> out]

\* _call_api's first statement, on the caller's dict object.
Authorized(token, headers) ==
    IF token # ""
    THEN SetItem(headers, "Authorization", "Bearer " \o token)
    ELSE headers

\* _call_api from the download on: `h` is the headers object as sent, `he`
\* what _handle_errors does with the response.
Unwrapped(path, h, supplied, resp, he) ==
    IF resp.net = "fail"
    THEN [raised |-> TRUE, err |-> DownloadError, data |-> Null, headers |-> h,
          sent |-> <<Sent("GET", _API_BASE \o path, h, supplied, resp.msg,
                          "download failed")>>]
    ELSE IF he.raised
    THEN [raised |-> TRUE, err |-> he.err, data |-> Null, headers |-> h,
          sent |-> <<Sent("GET", _API_BASE \o path, h, supplied, resp.msg, "raised")>>]
    ELSE IF ~resp.hasData
    THEN [raised |-> TRUE, err |-> KeyError("data"), data |-> Null, headers |-> h,
          sent |-> <<Sent("GET", _API_BASE \o path, h, supplied, resp.msg, "KeyError")>>]
    ELSE [raised |-> FALSE, err |-> NoError, data |-> resp.data, headers |-> h,
          sent |-> <<Sent("GET", _API_BASE \o path, h, supplied, resp.msg, "returned")>>]

\* _call_api: `headers` is the caller's dict object and is written to; the
\* result carries it back as `headers`, with the request when one was sent.
_call_api(name, token, path, headers, supplied, resp) ==
    IF token = Unset
    THEN [raised |-> TRUE, err |-> AttributeError, data |-> Null,
          headers |-> headers, sent |-> <<>>]
    ELSE Unwrapped(path, Authorized(token, headers), supplied, resp,
                   _handle_errors(name, resp))

\* What _get_serie_info hands back of the call `r`, and the default headers
\* object after it: the call's own dict when the default was used.
SerieAnswer(usesDefault, dflt, r) ==
    [raised |-> r.raised, err |-> r.err, data |-> r.data, sent |-> r.sent,
     dflt |-> IF usesDefault THEN r.headers ELSE dflt]

\* _get_serie_info: `given` is the headers argument, a list of none or one;
\* with none, the dict passed on is `dflt`, the one default object.
_get_serie_info(name, token, serie_id, given, dflt, resp) ==
    SerieAnswer(Len(given) = 0, dflt,
                _call_api(name, token, "serie/" \o serie_id,
                          IF Len(given) = 0 THEN dflt ELSE given[1],
                          IF Len(given) = 0 THEN EmptyDict ELSE given[1],
                          resp))

---------------------------------------------------------------------------
(* Stream formats. *)

StreamTypes == {"HLS", "DASH", "RTMP"}
ManifestUrls == {"u1", "u2"}
Stream(type, url) == [type |-> type, url |-> url]

\* What the manifest at `url` lists, unordered: its variants by bitrate.
Variants(id, url) ==
    IF url = "u1"
    THEN << [format_id |-> id \o "-2000", url |-> url, tbr |-> 2000],
            [format_id |-> id \o "-1000", url |-> url, tbr |-> 1000] >>
    ELSE << [format_id |-> id \o "-1500", url |-> url, tbr |-> 1500] >>

NoFormats == [raised |-> FALSE, err |-> NoError, formats |-> <<>>]

\* InfoExtractor._extract_m3u8_formats(url, video_id, 'mp4', m3u8_id='hls',
\* fatal=...): the variants; when the manifest cannot be had, an error if
\* fatal and no format otherwise.
_extract_m3u8_formats(url, parses, fatal) ==
    IF parses THEN [raised |-> FALSE, err |-> NoError, formats |-> Variants("hls", url)]
    ELSE IF fatal THEN [raised |-> TRUE, err |-> ManifestError, formats |-> <<>>]
    ELSE NoFormats

\* InfoExtractor._extract_mpd_formats(url, video_id, mpd_id='dash', fatal=...)
_extract_mpd_formats(url, parses, fatal) ==
    IF parses THEN [raised |-> FALSE, err |-> NoError, formats |-> Variants("dash", url)]
    ELSE IF fatal THEN [raised |-> TRUE, err |-> ManifestError, formats |-> <<>>]
    ELSE NoFormats

RECURSIVE Insert(_, _)
\* `f` put after the last format of the sorted `fs` that is not better.
Insert(fs, f) ==
    IF Len(fs) = 0 THEN <<f>>
    ELSE IF fs[Len(fs)].tbr <= f.tbr THEN Append(fs, f)
    ELSE Append(Insert(SubSeq(fs, 1, Len(fs) - 1), f), fs[Len(fs)])

RECURSIVE SortedByQuality(_)
SortedByQuality(fs) ==
    IF Len(fs) = 0 THEN <<>>
    ELSE Insert(SortedByQuality(SubSeq(fs, 1, Len(fs) - 1)), fs[Len(fs)])

\* InfoExtractor._sort_formats: worst first, best last, source order kept
\* among equals; an empty list stays an empty list.
_sort_formats(fs) == SortedByQuality(fs)

\* The body of _get_formats' loop for one stream.
Extracted(stream, parses, fatal) ==
    IF stream.type = "HLS" THEN _extract_m3u8_formats(stream.url, parses, fatal)
    ELSE IF stream.type = "DASH" THEN _extract_mpd_formats(stream.url, parses, fatal)
    ELSE NoFormats

\* formats.extend(...), unless the call raised.
Extended(one, rest) ==
    IF one.raised THEN one
    ELSE IF rest.raised THEN rest
    ELSE [raised |-> FALSE, err |-> NoError, formats |-> one.formats \o rest.formats]

RECURSIVE ExtendFormats(_, _, _)
\* The loop of _get_formats over `videos`, with the `fatal` it passes on:
\* parses[i] tells whether the manifest of videos[i] can be had.
ExtendFormats(videos, parses, fatal) ==
    IF Len(videos) = 0 THEN NoFormats
    ELSE Extended(Extracted(videos[1], parses[1], fatal),
                  ExtendFormats(Tail(videos), Tail(parses), fatal))

\* self._sort_formats(formats); return formats
SortedFormats(r) ==
    IF r.raised THEN r
    ELSE [raised |-> FALSE, err |-> NoError, formats |-> _sort_formats(r.formats)]

\* The mutant: the manifest calls without fatal=False.
_get_formats_Fatal(videos, parses) ==
    SortedFormats(ExtendFormats(videos, parses, TRUE))

_get_formats(videos, parses) ==
    SortedFormats(ExtendFormats(videos, parses, FALSE))

---------------------------------------------------------------------------
(* Subtitles. *)

Langs == {"ES", "es", "EN"}
SubtitleUrls == {"a.srt", "b.srt"}
Subtitle(lang, url) == [lang |-> lang, url |-> url]

\* str.lower() on the language tags of the model.
lower(s) ==
    CASE s = "ES" -> "es"
      [] s = "EN" -> "en"
      [] OTHER -> s

\* subs[lang] = [{'url': ..., 'ext': 'srt'}]
Assigned(dict, sub) ==
    SetItem(dict, lower(sub.lang), <<[url |-> sub.url, ext |-> "srt"]>>)

\* The mutant's assignment: a language already in the dict is kept.
AssignedOnce(dict, sub) ==
    IF lower(sub.lang) \in DOMAIN dict THEN dict ELSE Assigned(dict, sub)

RECURSIVE _get_subtitles_FirstWins(_)
\* The mutant: the first descriptor of a language wins.
_get_subtitles_FirstWins(subtitles) ==
    IF Len(subtitles) = 0 THEN EmptyDict
    ELSE AssignedOnce(_get_subtitles_FirstWins(SubSeq(subtitles, 1, Len(subtitles) - 1)),
                      subtitles[Len(subtitles)])

RECURSIVE _get_subtitles(_)
\* The dict after the loop has run over all of `subtitles`.
_get_subtitles(subtitles) ==
    IF Len(subtitles) = 0 THEN EmptyDict
    ELSE Assigned(_get_subtitles(SubSeq(subtitles, 1, Len(subtitles) - 1)),
                  subtitles[Len(subtitles)])

---------------------------------------------------------------------------
(* The catalog's resources. *)

EpisodeIds == {"e1", "e2"}
SerieIds == {"s1"}

\* The EpisodeRaw with a given id, as the API returns it, alone or inside
\* the season of a SeriesInfo.
Video(id) ==
    IF id = "e1"
    THEN [id |-> id, name |-> "Matilde", synopsis |-> "Matilde llega",
          serie |-> "s1", serie_name |-> "Matilde todos los dias",
          episode |-> Int(1), length |-> Int(648), posterImage |-> "e1.jpg",
          streams |-> <<Stream("HLS", "u1")>>,
          subtitles |-> [data |-> <<Subtitle("ES", "a.srt")>>]]
    ELSE [id |-> id, name |-> "Julio Lagos", synopsis |-> "Ana conduce",
          serie |-> "s1", serie_name |-> "Vidas de Radio",
          episode |-> Str("x"), length |-> Str("2"), posterImage |-> "e2.jpg",
          streams |-> <<Stream("RTMP", "u1"), Stream("DASH", "u2")>>,
          subtitles |-> [data |-> <<Subtitle("ES", "a.srt"), Subtitle("es", "b.srt")>>]]

Videos == { Video(id) : id \in EpisodeIds }

\* A season's name: a number, zero (false in Python), a numeric string.
SeasonNames == { Int(0), Int(1), Str("2") }

EpisodeSeqs == UNION { [1..n -> EpisodeIds] : n \in 0..MaxEpisodes }

Season(name, ids) ==
    [name |-> name, videos |-> [data |-> [i \in 1..Len(ids) |-> Video(ids[i])]]]

Seasons == { Season(nm, ids) : nm \in SeasonNames, ids \in EpisodeSeqs }

RECURSIVE CountEpisodes(_)
CountEpisodes(seasons) ==
    IF Len(seasons) = 0 THEN 0
    ELSE Len(seasons[1].videos.data) + CountEpisodes(Tail(seasons))

SeasonSeqs ==
    { ss \in UNION { [1..n -> Seasons] : n \in 0..MaxSeasons } :
        CountEpisodes(ss) <= MaxEpisodes }

SeriesInfo(seasons) ==
    [id |-> "s1", name |-> "Vidas de Radio", story_large |-> "Ana conduce el ciclo",
     year |-> Str("2"), seasons |-> [data |-> seasons]]

SeriesInfos == { SeriesInfo(ss) : ss \in SeasonSeqs }

\* A listed resource of a channel or of a genre section.
Resource(type, uuid) == [type |-> type, uuid |-> uuid, name |-> "Title of " \o uuid]
Resources == { Resource("SERIE", "s1"), Resource("SERIE", "s2"), Resource("MOVIE", "m1") }
ResourceLists == UNION { [1..n -> Resources] : n \in 0..MaxList }

ChannelInfos == { [name |-> "PAKAPAKA", description |-> "Canal infantil"] }
Sections == { [title |-> "Infantil", videos |-> [data |-> l]] : l \in ResourceLists }

---------------------------------------------------------------------------
(* One item from one raw episode. *)

\* whether a season lists an episode with this id
Lists(season, video_id) ==
    \E i \in 1..Len(season.videos.data) : season.videos.data[i].id = video_id

RECURSIVE LastMatch(_, _)
LastMatch(seasons, video_id) ==
    IF Len(seasons) = 0 THEN Null
    ELSE IF Lists(seasons[Len(seasons)], video_id) THEN seasons[Len(seasons)].name
    ELSE LastMatch(SubSeq(seasons, 1, Len(seasons) - 1), video_id)

\* The mutant: the scan goes on after a match, so that the last match wins.
_get_season_number_Last(info, video_id) ==
    LastMatch(info.seasons.data, video_id)

RECURSIVE FirstMatch(_, _)
\* The two loops of _get_season_number over the seasons left.
FirstMatch(seasons, video_id) ==
    IF Len(seasons) = 0 THEN Null
    ELSE IF Lists(seasons[1], video_id) THEN seasons[1].name
    ELSE FirstMatch(Tail(seasons), video_id)

\* The name of the first season that lists an episode with this id.
_get_season_number(info, video_id) ==
    FirstMatch(info.seasons.data, video_id)

\* The `base` argument: a dict that may hold serie_info and season_number.
\* An absent key reads as None; serie_info is a list of none or one.
NoBase == [serie_info |-> <<>>, season_number |-> Null]

\* base.get('season_number') or self._get_season_number(serie_info, id)
SeasonNumber(base, info, video_id) ==
    IF Truthy(base.season_number) THEN base.season_number
    ELSE _get_season_number(info, video_id)

\* The info dict of _get_video_info.
Info(video, info, season_number, fmts, subtitles) ==
    [id |-> video.id,
     title |-> video.name,
     description |-> video.synopsis,
     series |-> video.serie_name,
     episode |-> video.name,
     episode_number |-> int_or_none(video.episode),
     season_number |-> int_or_none(season_number),
     season_id |-> video.serie,
     episode_id |-> video.id,
     duration |-> int_or_none(video.length),
     thumbnail |-> video.posterImage,
     release_year |-> int_or_none(info.year),
     formats |-> fmts,
     subtitles |-> subtitles]

\* _get_video_info once the formats `f` are there: `fetched` is the call of
\* _get_serie_info, made only when base holds no serie_info.
VideoInfo(video, base, dflt, f, fetched) ==
    IF f.raised
    THEN [raised |-> TRUE, err |-> f.err, info |-> Null, sent |-> <<>>, dflt |-> dflt]
    ELSE IF Len(base.serie_info) > 0
    THEN [raised |-> FALSE, err |-> NoError,
          info |-> Info(video, base.serie_info[1],
                        SeasonNumber(base, base.serie_info[1], video.id),
                        f.formats, _get_subtitles(video.subtitles.data)),
          sent |-> <<>>, dflt |-> dflt]
    ELSE IF fetched.raised
    THEN [raised |-> TRUE, err |-> fetched.err, info |-> Null,
          sent |-> fetched.sent, dflt |-> fetched.dflt]
    ELSE [raised |-> FALSE, err |-> NoError,
          info |-> Info(video, fetched.data,
                        SeasonNumber(base, fetched.data, video.id),
                        f.formats, _get_subtitles(video.subtitles.data)),
          sent |-> fetched.sent, dflt |-> fetched.dflt]

\* The mutant's body: the series is fetched whatever base holds.
VideoInfoRefetched(video, base, dflt, f, fetched) ==
    IF f.raised
    THEN [raised |-> TRUE, err |-> f.err, info |-> Null, sent |-> <<>>, dflt |-> dflt]
    ELSE IF fetched.raised
    THEN [raised |-> TRUE, err |-> fetched.err, info |-> Null,
          sent |-> fetched.sent, dflt |-> fetched.dflt]
    ELSE [raised |-> FALSE, err |-> NoError,
          info |-> Info(video, fetched.data,
                        SeasonNumber(base, fetched.data, video.id),
                        f.formats, _get_subtitles(video.subtitles.data)),
          sent |-> fetched.sent, dflt |-> fetched.dflt]

\* The parse outcome of each stream's manifest.
Parses(streams, parsable) ==
    [i \in 1..Len(streams) |-> streams[i].url \in parsable]

\* The mutant: base['serie_info'] is not looked at.
_get_video_info_Refetch(name, token, video, base, dflt, resp, parsable) ==
    VideoInfoRefetched(video, base, dflt,
              _get_formats(video.streams, Parses(video.streams, parsable)),
              _get_serie_info(name, token, video.serie, <<>>, dflt, resp))

_get_video_info(name, token, video, base, dflt, resp, parsable) ==
    VideoInfo(video, base, dflt,
              _get_formats(video.streams, Parses(video.streams, parsable)),
              _get_serie_info(name, token, video.serie, <<>>, dflt, resp))

---------------------------------------------------------------------------
(* The session. *)

NoLogin == "<none>"
Logins == {NoLogin, "user@example.com"}
Tokens == {"", "t1"}

\* What the authenticate endpoint answers: as a resource's envelope, with
\* an optional token in place of the data.
AuthResponses ==
    { [net |-> "fail", msg |-> NoMessage, hasToken |-> FALSE, token |-> ""] }
    \cup { [net |-> "ok", msg |-> m, hasToken |-> FALSE, token |-> ""] :
             m \in Messages }
    \cup { [net |-> "ok", msg |-> m, hasToken |-> TRUE, token |-> t] :
             m \in Messages, t \in Tokens }

\* The POST of the credentials, as logged.
Authenticate(msg, out) ==
    <<Sent("POST", _API_BASE \o "authenticate", EmptyDict, EmptyDict, msg, out)>>

\* _real_initialize from the download on: `token` is self._auth_token
\* afterwards.
Authenticated(resp, he) ==
    IF resp.net = "fail"
    THEN [raised |-> TRUE, err |-> DownloadError, token |-> Unset,
          sent |-> Authenticate(resp.msg, "download failed")]
    ELSE IF he.raised
    THEN [raised |-> TRUE, err |-> he.err, token |-> Unset,
          sent |-> Authenticate(resp.msg, "raised")]
    ELSE IF ~resp.hasToken
    THEN [raised |-> TRUE, err |-> KeyError("token"), token |-> Unset,
          sent |-> Authenticate(resp.msg, "KeyError")]
    ELSE [raised |-> FALSE, err |-> NoError, token |-> resp.token,
          sent |-> Authenticate(resp.msg, "returned")]

\* The mutant: the credentials are posted whether there are any or not.
_real_initialize_NoLoginCheck(name, email, resp) ==
    Authenticated(resp, _handle_errors(name, resp))

_real_initialize(name, email, resp) ==
    IF email = NoLogin
    THEN [raised |-> TRUE, err |-> LoginRequired, token |-> Unset, sent |-> <<>>]
    ELSE Authenticated(resp, _handle_errors(name, resp))

---------------------------------------------------------------------------
(* The four resolution modes.  What a mode gives: the error or the value, *)
(* the requests sent, the default headers object of _get_serie_info       *)
(* afterwards, and the SeriesInfo or the listing it walked, if any.       *)

Referer(url) == [k \in {"Referer"} |-> url]

Raised(err, sent, dflt, info) ==
    [raised |-> TRUE, err |-> err, value |-> Null, sent |-> sent,
     dflt |-> dflt, info |-> info, listing |-> <<>>]
Returned(value, sent, dflt, info) ==
    [raised |-> FALSE, err |-> NoError, value |-> value, sent |-> sent,
     dflt |-> dflt, info |-> info, listing |-> <<>>]
ReturnedList(value, sent, dflt, walked) ==
    [raised |-> FALSE, err |-> NoError, value |-> value, sent |-> sent,
     dflt |-> dflt, info |-> <<>>, listing |-> <<walked>>]

\* InfoExtractor.url_result and InfoExtractor.playlist_result
url_result(url, video_id, video_title) ==
    [_type |-> "url", url |-> url, id |-> video_id, title |-> video_title]
playlist_result(entries, playlist_id, playlist_title, playlist_description) ==
    [_type |-> "playlist", entries |-> entries, id |-> playlist_id,
     title |-> playlist_title, description |-> playlist_description]

\* return info, after the episode fetch `c`
EpisodeItem(c, v) ==
    IF v.raised THEN Raised(v.err, c.sent \o v.sent, v.dflt, <<>>)
    ELSE Returned(v.info, c.sent \o v.sent, v.dflt, <<>>)

\* ContarIE._real_extract after the episode fetch `c`.
EpisodeFetched(c, token, dflt, r2, parsable) ==
    IF c.raised THEN Raised(c.err, c.sent, dflt, <<>>)
    ELSE EpisodeItem(c, _get_video_info("Contar", token, c.data, NoBase, dflt,
                                        r2, parsable))

\* ContarIE._real_extract: `r1` answers the episode fetch and `r2` the
\* fetch of its series; `dflt` is _get_serie_info's default headers object.
ContarIE_real_extract(token, video_id, dflt, r1, r2, parsable) ==
    EpisodeFetched(_call_api("Contar", token, "videos/" \o video_id,
                             Referer("https://www.cont.ar/watch/" \o video_id),
                             Referer("https://www.cont.ar/watch/" \o video_id), r1),
                   token, dflt, r2, parsable)

\* for episode in season['videos'].get('data', []), with the
\* base['season_number'] set before the loop
SeasonEpisodes(season) ==
    [i \in 1..Len(season.videos.data) |->
        [season_number |-> season.name, episode |-> season.videos.data[i]]]

RECURSIVE Episodes(_)
\* The episodes the two loops of ContarSerieIE._real_extract visit, in order.
Episodes(seasons) ==
    IF Len(seasons) = 0 THEN <<>>
    ELSE SeasonEpisodes(seasons[1]) \o Episodes(Tail(seasons))

\* entries.append(info), unless _get_video_info raised
Appended(acc, v) ==
    [raised |-> v.raised, err |-> v.err,
     entries |-> IF v.raised THEN acc.entries ELSE Append(acc.entries, v.info),
     sent |-> acc.sent \o v.sent, dflt |-> v.dflt]

RECURSIVE Entries(_, _, _, _, _, _)
\* The loops' body over `todo`: `acc` holds the entries so far, the
\* requests sent and the default headers object; an error ends the loops.
Entries(token, info, todo, acc, resp, parsable) ==
    IF Len(todo) = 0 \/ acc.raised THEN acc
    ELSE Entries(token, info, Tail(todo),
                 Appended(acc,
                     _get_video_info("ContarSerie", token, todo[1].episode,
                         [serie_info |-> <<info>>,
                          season_number |-> todo[1].season_number],
                         acc.dflt, resp, parsable)),
                 resp, parsable)

\* return self.playlist_result(entries, serie_id, name, story_large)
SeriePlaylist(serie_id, info, e) ==
    IF e.raised THEN Raised(e.err, e.sent, e.dflt, <<info>>)
    ELSE Returned(playlist_result(e.entries, serie_id, info.name, info.story_large),
                  e.sent, e.dflt, <<info>>)

\* ContarSerieIE._real_extract after the fetch `c` of the series.
SerieFetched(c, token, serie_id, resp, parsable) ==
    IF c.raised THEN Raised(c.err, c.sent, c.dflt, <<>>)
    ELSE SeriePlaylist(serie_id, c.data,
             Entries(token, c.data, Episodes(c.data.seasons.data),
                     [raised |-> FALSE, err |-> NoError, entries |-> <<>>,
                      sent |-> c.sent, dflt |-> c.dflt],
                     resp, parsable))

\* ContarSerieIE._real_extract: `resp` answers the fetch of the series.
ContarSerieIE_real_extract(token, serie_id, dflt, resp, parsable) ==
    SerieFetched(_get_serie_info("ContarSerie", token, serie_id,
                     <<Referer("https://www.cont.ar/serie/" \o serie_id)>>,
                     dflt, resp),
                 token, serie_id, resp, parsable)

RECURSIVE LazyEntries_All(_)
\* The mutant: a reference for every resource, whatever its type.
LazyEntries_All(list) ==
    IF Len(list) = 0 THEN <<>>
    ELSE <<url_result("www.cont.ar/serie/" \o list[1].uuid,
                      list[1].uuid, list[1].name)>>
         \o LazyEntries_All(Tail(list))

RECURSIVE LazyEntries(_)
\* The loop both listings share: a reference for each "SERIE" resource.
LazyEntries(list) ==
    IF Len(list) = 0 THEN <<>>
    ELSE (IF list[1].type = "SERIE"
          THEN <<url_result("www.cont.ar/serie/" \o list[1].uuid,
                            list[1].uuid, list[1].name)>>
          ELSE <<>>)
         \o LazyEntries(Tail(list))

\* The mutant: when the fetch of the list fails, a playlist with no entry.
ChannelPlaylist_Partial(list_id, dflt, channel_info, list) ==
    IF channel_info.raised
    THEN Raised(channel_info.err, channel_info.sent, dflt, <<>>)
    ELSE IF list.raised
    THEN ReturnedList(playlist_result(<<>>, list_id, channel_info.data.name,
                                      channel_info.data.description),
                      channel_info.sent \o list.sent, dflt, <<>>)
    ELSE ReturnedList(playlist_result(LazyEntries(list.data), list_id,
                                      channel_info.data.name,
                                      channel_info.data.description),
                      channel_info.sent \o list.sent, dflt, list.data)

\* ContarChannelIE._real_extract after its two calls.
ChannelPlaylist(list_id, dflt, channel_info, list) ==
    IF channel_info.raised
    THEN Raised(channel_info.err, channel_info.sent, dflt, <<>>)
    ELSE IF list.raised
    THEN Raised(list.err, channel_info.sent \o list.sent, dflt, <<>>)
    ELSE ReturnedList(playlist_result(LazyEntries(list.data), list_id,
                                      channel_info.data.name,
                                      channel_info.data.description),
                      channel_info.sent \o list.sent, dflt, list.data)

\* ContarChannelIE._real_extract: `r1` answers channel/info, `r2` channel/series.
ContarChannelIE_real_extract(token, list_id, dflt, r1, r2) ==
    ChannelPlaylist(list_id, dflt,
        _call_api("ContarChannel", token, "channel/info/" \o list_id,
                  Referer("https://www.cont.ar/channel/" \o list_id),
                  Referer("https://www.cont.ar/channel/" \o list_id), r1),
        _call_api("ContarChannel", token, "channel/series/" \o list_id,
                  Referer("https://www.cont.ar/channel/" \o list_id),
                  Referer("https://www.cont.ar/channel/" \o list_id), r2))

\* ContarBrowseIE._real_extract after its call: a playlist with no description.
BrowsePlaylist(list_id, dflt, list) ==
    IF list.raised THEN Raised(list.err, list.sent, dflt, <<>>)
    ELSE ReturnedList(playlist_result(LazyEntries(list.data.videos.data), list_id,
                                      list.data.title, "<none>"),
                      list.sent, dflt, list.data.videos.data)

ContarBrowseIE_real_extract(token, list_id, dflt, resp) ==
    BrowsePlaylist(list_id, dflt,
        _call_api("ContarBrowse", token, "full/section/" \o list_id,
                  Referer("https://www.cont.ar/browse/genre/" \o list_id),
                  Referer("https://www.cont.ar/browse/genre/" \o list_id), resp))

---------------------------------------------------------------------------
(* The process: extractor instances, one at work at a time, each          *)
(* initialized before it extracts.  What outlives an instance is the      *)
(* default headers object of _get_serie_info.                             *)

Init ==
    /\ ie \in IE_NAMES
    /\ login \in Logins
    /\ auth_token = Unset
    /\ ready = FALSE
    /\ serie_headers = EmptyDict
    /\ status = "idle"
    /\ error = NoError
    /\ result = Null
    /\ log = <<>>
    /\ serie_info = <<>>
    /\ listing = <<>>
    /\ ok_urls = {}
    /\ subs_in = <<>>
    /\ subs_out = <<>>
    /\ fmt_in = <<>>
    /\ fmt_ok = <<>>
    /\ fmt_out = <<>>

\* A new instance of one of the four classes takes over.
NewExtractor ==
    /\ status = "idle"
    /\ \E k \in IE_NAMES, l \in Logins :
          /\ ie' = k
          /\ login' = l
    /\ auth_token' = Unset
    /\ ready' = FALSE
    /\ UNCHANGED <<serie_headers, status, error, result, log, serie_info, listing,
                   ok_urls>>
    /\ UNCHANGED <<subsVars, fmtVars>>

\* The instance after _real_initialize raised or returned `r`.
Initialized(r) ==
    /\ auth_token' = r.token
    /\ ready' = ~r.raised
    /\ status' = IF r.raised THEN "Failed" ELSE "Initialized"
    /\ error' = r.err
    /\ log' = r.sent

\* InfoExtractor.initialize: _real_initialize, once, before any extraction.
Initialize ==
    /\ status = "idle"
    /\ ~ready
    /\ \E resp \in AuthResponses : Initialized(_real_initialize(ie, login, resp))
    /\ UNCHANGED <<ie, login, serie_headers, result, serie_info, listing, ok_urls>>
    /\ UNCHANGED <<subsVars, fmtVars>>

\* The end of an extraction that raised or returned `r`.
Finish(r, parsable) ==
    /\ status' = IF r.raised THEN "Failed" ELSE "Assembled"
    /\ error' = r.err
    /\ result' = r.value
    /\ log' = r.sent
    /\ serie_headers' = r.dflt
    /\ serie_info' = r.info
    /\ listing' = r.listing
    /\ ok_urls' = parsable
    /\ UNCHANGED <<ie, login, auth_token, ready>>
    /\ UNCHANGED <<subsVars, fmtVars>>

\* The payloads that come with every message.
OneSerie ==
    SeriesInfo(<<Season(Int(1), <<"e1">>), Season(Str("2"), <<"e2">>)>>)
OneList == <<Resource("MOVIE", "m1"), Resource("SERIE", "s1")>>
OneSection == [title |-> "Infantil", videos |-> [data |-> OneList]]
OneChannel == [name |-> "PAKAPAKA", description |-> "Canal infantil"]

NoAnswer == [net |-> "fail", msg |-> NoMessage, hasData |-> FALSE, data |-> Null]

\* `first` is the extraction with no answer to its second fetch: one
\* request sent then means that the first call raised, and the second
\* answer and the manifests are chosen only when they are asked for.
EpisodeAnswered(first, video_id, r1) ==
    IF Len(first.sent) = 1
    THEN Finish(first, {})
    ELSE \E r2 \in Responses(SeriesInfos, OneSerie) :
         \E parsable \in SUBSET ManifestUrls :
            Finish(ContarIE_real_extract(auth_token, video_id, serie_headers,
                                         r1, r2, parsable),
                   parsable)

ExtractEpisode ==
    /\ status = "idle"
    /\ ready
    /\ ie = "Contar"
    /\ \E video_id \in EpisodeIds :
       \E r1 \in Responses({Video(video_id)}, Video(video_id)) :
          EpisodeAnswered(ContarIE_real_extract(auth_token, video_id, serie_headers,
                                                r1, NoAnswer, {}),
                          video_id, r1)

ExtractSerie ==
    /\ status = "idle"
    /\ ready
    /\ ie = "ContarSerie"
    /\ \E serie_id \in SerieIds :
       \E resp \in Responses(SeriesInfos, OneSerie) :
       \E parsable \in SUBSET ManifestUrls :
          Finish(ContarSerieIE_real_extract(auth_token, serie_id, serie_headers,
                                            resp, parsable),
                 parsable)

ExtractChannel ==
    /\ status = "idle"
    /\ ready
    /\ ie = "ContarChannel"
    /\ \E r1 \in Responses(ChannelInfos, OneChannel) :
       \E r2 \in Responses(ResourceLists, OneList) :
          Finish(ContarChannelIE_real_extract(auth_token, "242", serie_headers, r1, r2),
                 {})

ExtractBrowse ==
    /\ status = "idle"
    /\ ready
    /\ ie = "ContarBrowse"
    /\ \E resp \in Responses(Sections, OneSection) :
          Finish(ContarBrowseIE_real_extract(auth_token, "46", serie_headers, resp), {})

\* The caller has the error or the result; the instance is idle again.
Return ==
    /\ status # "idle"
    /\ status' = "idle"
    /\ error' = NoError
    /\ result' = Null
    /\ log' = <<>>
    /\ serie_info' = <<>>
    /\ listing' = <<>>
    /\ ok_urls' = {}
    /\ UNCHANGED <<ie, login, auth_token, ready, serie_headers>>
    /\ UNCHANGED <<subsVars, fmtVars>>

Next ==
    \/ NewExtractor
    \/ Initialize
    \/ ExtractEpisode
    \/ ExtractSerie
    \/ ExtractChannel
    \/ ExtractBrowse
    \/ Return

Spec == Init /\ [][Next]_vars

---------------------------------------------------------------------------
(* _get_subtitles and _get_formats on their own, over all short inputs.   *)

Idle ==
    /\ ie = "Contar"
    /\ login = NoLogin
    /\ auth_token = Unset
    /\ ready = FALSE
    /\ serie_headers = EmptyDict
    /\ status = "idle"
    /\ error = NoError
    /\ result = Null
    /\ log = <<>>
    /\ serie_info = <<>>
    /\ listing = <<>>
    /\ ok_urls = {}

Subtitles == { Subtitle(l, u) : l \in Langs, u \in SubtitleUrls }
SubtitleSeqs == UNION { [1..n -> Subtitles] : n \in 0..MaxSubs }

InitSubtitles ==
    /\ Idle
    /\ subs_in \in SubtitleSeqs
    /\ subs_out = <<>>
    /\ fmt_in = <<>>
    /\ fmt_ok = <<>>
    /\ fmt_out = <<>>

\* subs_out holds what the call returned.
GetSubtitles ==
    /\ subs_out = <<>>
    /\ subs_out' = <<_get_subtitles(subs_in)>>
    /\ UNCHANGED <<sessionVars, subs_in, fmtVars>>

SpecSubtitles == InitSubtitles /\ [][GetSubtitles]_vars

Streams == { Stream(t, u) : t \in StreamTypes, u \in ManifestUrls }
StreamSeqs == UNION { [1..n -> Streams] : n \in 0..MaxStreams }

InitFormats ==
    /\ Idle
    /\ subs_in = <<>>
    /\ subs_out = <<>>
    /\ fmt_in \in StreamSeqs
    /\ fmt_ok \in [1..Len(fmt_in) -> BOOLEAN]
    /\ fmt_out = <<>>

\* fmt_out holds what the call returned or raised.
GetFormats ==
    /\ fmt_out = <<>>
    /\ fmt_out' = <<_get_formats(fmt_in, fmt_ok)>>
    /\ UNCHANGED <<sessionVars, subsVars, fmt_in, fmt_ok>>

SpecFormats == InitFormats /\ [][GetFormats]_vars

---------------------------------------------------------------------------
(* Claims about _get_subtitles, under SpecSubtitles. *)

\* The key of the claim for the tags of Langs: the tag in lower case.
C9_Key(lang) == IF lang \in {"ES", "es"} THEN "es" ELSE "en"

\* The position of the last descriptor stored under `key`.
C9_IsLast(i, key) ==
    /\ C9_Key(subs_in[i].lang) = key
    /\ \A j \in (i + 1)..Len(subs_in) : C9_Key(subs_in[j].lang) # key

\* C9: the subtitle map has exactly the lower-cased language codes of the
\* descriptors as its keys, and under each key one single entry, with the
\* extension srt and the URL of the last descriptor of that language (two
\* codes that differ only in case are one language).
C9_LastDescriptorWins ==
    subs_out # <<>> =>
        /\ DOMAIN subs_out[1] = { C9_Key(subs_in[i].lang) : i \in DOMAIN subs_in }
        /\ \A i \in DOMAIN subs_in :
              C9_IsLast(i, C9_Key(subs_in[i].lang)) =>
                  subs_out[1][C9_Key(subs_in[i].lang)]
                      = <<[url |-> subs_in[i].url, ext |-> "srt"]>>

\* Two descriptors whose codes differ in case only: the later one is kept.
C9_Witness ==
    /\ subs_in = <<Subtitle("ES", "a.srt"), Subtitle("EN", "a.srt"),
                   Subtitle("es", "b.srt")>>
    /\ subs_out # <<>>
    /\ DOMAIN subs_out[1] = {"es", "en"}
    /\ subs_out[1]["es"] = <<[url |-> "b.srt", ext |-> "srt"]>>

---------------------------------------------------------------------------
(* Claims about _get_formats, under SpecFormats. *)

\* The streams of fmt_in that contribute: HLS or DASH, manifest parsed.
C8_Contributes(i) == fmt_in[i].type \in {"HLS", "DASH"} /\ fmt_ok[i]

\* The variants the claim expects of stream i.
C8_Variants(i) ==
    Variants(IF fmt_in[i].type = "HLS" THEN "hls" ELSE "dash", fmt_in[i].url)

RECURSIVE C8_Count(_)
\* How many variants the contributing streams among the first n have.
C8_Count(n) ==
    IF n = 0 THEN 0
    ELSE C8_Count(n - 1) + (IF C8_Contributes(n) THEN Len(C8_Variants(n)) ELSE 0)

\* C8: _get_formats never raises; its list holds the variants of the HLS
\* and DASH streams whose manifest could be parsed, each as often as it
\* was listed, and nothing else: a stream of another type and a stream
\* whose manifest failed contribute nothing, and with no contributing
\* stream the list is empty.  The list is ordered by quality.
C8_FormatsAreTheParsedVariants ==
    fmt_out # <<>> =>
        /\ ~fmt_out[1].raised
        /\ Len(fmt_out[1].formats) = C8_Count(Len(fmt_in))
        /\ { fmt_out[1].formats[k] : k \in DOMAIN fmt_out[1].formats }
              = UNION { { C8_Variants(i)[k] : k \in DOMAIN C8_Variants(i) } :
                          i \in { j \in DOMAIN fmt_in : C8_Contributes(j) } }
        /\ \A k \in 1..(Len(fmt_out[1].formats) - 1) :
              fmt_out[1].formats[k].tbr <= fmt_out[1].formats[k + 1].tbr

\* An HLS manifest that fails, a stream of another type and a DASH stream
\* that resolves: the request goes on with the DASH variant alone.
C8_Witness ==
    /\ fmt_in = <<Stream("HLS", "u1"), Stream("RTMP", "u1"), Stream("DASH", "u2")>>
    /\ fmt_ok = <<FALSE, TRUE, TRUE>>
    /\ fmt_out # <<>>
    /\ ~fmt_out[1].raised
    /\ Len(fmt_out[1].formats) = 1
    /\ fmt_out[1].formats[1].format_id = "dash-1500"

---------------------------------------------------------------------------
(* Claims about the envelope and the session, under Spec. *)

\* The requests of the log that _call_api sent and got an envelope for.
C1_Handled(i) == log[i].method = "GET" /\ log[i].out # "download failed"

\* An envelope's message as one text: a string as it is, the values of a
\* mapping joined with ", ".
C1_Text(msg) ==
    CASE msg = StrMessage("bad") -> "bad"
      [] msg = MapMessage(<<"bad", "worse">>) -> "bad, worse"
      [] OTHER -> ""

\* A message that is there and is not empty.
C1_NonEmpty(msg) ==
    \/ msg.t = "str" /\ msg.s # ""
    \/ msg.t = "map" /\ msg.vals # <<>>

\* C1 as stated: whenever the envelope a call handles carries
\* error.message, the call fails with an error whose text is that message
\* (the values joined with ", " for a mapping), and data is returned only
\* from an envelope with no error message.
C1_MessageRaisedAsItIs ==
    \A i \in DOMAIN log :
        C1_Handled(i) =>
            /\ log[i].msg.t # "none" =>
                  /\ log[i].out = "raised"
                  /\ status = "Failed"
                  /\ error.text = C1_Text(log[i].msg)
            /\ log[i].out = "returned" => log[i].msg.t = "none"

\* C1: whenever the envelope a call handles carries a non-empty
\* error.message, the call fails, as the last call of the request, with
\* the error "<IE_NAME> said: <message>" (the values joined with ", " for
\* a mapping) and the data field is not returned; with no message, or an
\* empty string or an empty mapping as message, no error is raised for
\* the message and the data field is returned when there is one.
C1_NonEmptyMessageRaisedWithName ==
    \A i \in DOMAIN log :
        C1_Handled(i) =>
            /\ C1_NonEmpty(log[i].msg) =>
                  /\ log[i].out = "raised"
                  /\ i = Len(log)
                  /\ status = "Failed"
                  /\ result = Null
                  /\ error = [kind |-> "api",
                              text |-> ie \o " said: " \o C1_Text(log[i].msg)]
            /\ ~C1_NonEmpty(log[i].msg) => log[i].out \in {"returned", "KeyError"}

\* The envelope of the claim's example reaches a call: "bad, worse".
C1_Witness ==
    /\ status = "Failed"
    /\ log # <<>>
    /\ log[Len(log)].method = "GET"
    /\ log[Len(log)].msg = MapMessage(<<"bad", "worse">>)
    /\ log[Len(log)].out = "raised"
    /\ error.text = ie \o " said: bad, worse"

---------------------------------------------------------------------------
(* Claims about the series mode and the episode mode, under Spec. *)

\* A series extraction has returned its playlist.
C3_SeriesDone == ie = "ContarSerie" /\ status = "Assembled"

\* The seasons of the SeriesInfo it walked, and the episodes of season j.
C3_Seasons == serie_info[1].seasons.data
C3_Videos(j) == C3_Seasons[j].videos.data

RECURSIVE C3_Before(_)
\* How many episodes the seasons before season j list.
C3_Before(j) ==
    IF j <= 1 THEN 0 ELSE C3_Before(j - 1) + Len(C3_Videos(j - 1))

\* The playlist entry built for the k-th episode of season j.
C3_Entry(j, k) == result.entries[C3_Before(j) + k]

\* A season's name as a season number: an integer when numeric, else none.
C3_Number(name) ==
    CASE name = Int(0) -> Int(0)
      [] name = Int(1) -> Int(1)
      [] name = Str("2") -> Int(2)
      [] OTHER -> Null

\* The season number of the item the episode mode builds for `video`,
\* when the API answers the fetch of its series with the same SeriesInfo.
C3_Standalone(video) ==
    _get_video_info("Contar", auth_token, video, NoBase, EmptyDict,
                    [net |-> "ok", msg |-> NoMessage, hasData |-> TRUE,
                     data |-> serie_info[1]],
                    ok_urls).info.season_number

\* No season before season j lists the k-th episode of season j.
C3_FirstListing(j, k) ==
    \A j0 \in 1..(j - 1) : \A k0 \in DOMAIN C3_Videos(j0) :
        C3_Videos(j0)[k0].id # C3_Videos(j)[k].id

\* C3 as stated: for every episode listed in a season of the SeriesInfo,
\* the season number of its series-mode entry equals the season number
\* of the same episode resolved standalone, and both equal the name of
\* the season that contains the episode.
C3_SameSeasonNumberInBothModes ==
    C3_SeriesDone =>
        \A j \in DOMAIN C3_Seasons : \A k \in DOMAIN C3_Videos(j) :
            /\ C3_Entry(j, k).season_number = C3_Standalone(C3_Videos(j)[k])
            /\ C3_Entry(j, k).season_number = C3_Number(C3_Seasons[j].name)

\* C3: for every episode listed in a season of the SeriesInfo whose id no
\* earlier season lists, the season number of its series-mode entry
\* equals the season number of the same episode resolved standalone, and
\* both equal the name of that season as a number; an episode whose id an
\* earlier season lists too gets, resolved standalone, the number of the
\* first season that lists the id.
C3_SameSeasonNumberAtFirstListing ==
    C3_SeriesDone =>
        \A j \in DOMAIN C3_Seasons : \A k \in DOMAIN C3_Videos(j) :
            /\ C3_FirstListing(j, k) =>
                  /\ C3_Entry(j, k).season_number = C3_Number(C3_Seasons[j].name)
                  /\ C3_Standalone(C3_Videos(j)[k]) = C3_Number(C3_Seasons[j].name)
            /\ \E j0 \in 1..j : \E k0 \in DOMAIN C3_Videos(j0) :
                  /\ C3_Videos(j0)[k0].id = C3_Videos(j)[k].id
                  /\ C3_FirstListing(j0, k0)
                  /\ C3_Standalone(C3_Videos(j)[k]) = C3_Number(C3_Seasons[j0].name)

\* Season 1 lists e1, season "2" lists e1 again and e2.  The entry of e2
\* has season number 2 in both modes; the second entry of e1 has 2, and
\* e1 resolved standalone has 1.
C3_Witness ==
    /\ C3_SeriesDone
    /\ Len(C3_Seasons) = 2
    /\ C3_Seasons[1].name = Int(1)
    /\ Len(C3_Videos(1)) = 1
    /\ C3_Videos(1)[1].id = "e1"
    /\ C3_Seasons[2].name = Str("2")
    /\ Len(C3_Videos(2)) = 2
    /\ C3_Videos(2)[1].id = "e1"
    /\ C3_Videos(2)[2].id = "e2"
    /\ Len(result.entries) = 3
    /\ result.entries[3].season_number = Int(2)
    /\ C3_Standalone(C3_Videos(2)[2]) = Int(2)
    /\ result.entries[2].season_number = Int(2)
    /\ C3_Standalone(C3_Videos(2)[1]) = Int(1)

\* C5 as stated: the playlist of the series mode has one entry per
\* episode of the SeriesInfo, in the order of the seasons and of the
\* episodes within each season, and each entry carries the season number
\* of the season the episode was listed under.
C5_OneEntryPerEpisodeWithItsSeason ==
    C3_SeriesDone =>
        /\ Len(result.entries) = C3_Before(Len(C3_Seasons) + 1)
        /\ \A j \in DOMAIN C3_Seasons : \A k \in DOMAIN C3_Videos(j) :
              /\ C3_Entry(j, k).id = C3_Videos(j)[k].id
              /\ C3_Entry(j, k).season_number = C3_Number(C3_Seasons[j].name)

\* C6: a series extraction sends one request in all, the fetch of the
\* series, however many seasons and episodes there are; an episode
\* extraction sends the fetch of the episode and then, if that returned,
\* one fetch of the series the episode belongs to, and nothing else.
C6_OneSeriesFetch ==
    /\ ie = "ContarSerie" /\ ready /\ status \in {"Assembled", "Failed"} =>
          /\ Len(log) = 1
          /\ log[1].method = "GET"
          /\ log[1].url \in { "https://api.cont.ar/api/v2/serie/" \o s : s \in SerieIds }
    /\ ie = "Contar" /\ ready /\ status \in {"Assembled", "Failed"} =>
          /\ Len(log) \in {1, 2}
          /\ log[1].method = "GET"
          /\ log[1].url \in { "https://api.cont.ar/api/v2/videos/" \o e : e \in EpisodeIds }
          /\ Len(log) = 1 => status = "Failed" /\ log[1].out # "returned"
          /\ Len(log) = 2 =>
                /\ log[1].out = "returned"
                /\ log[2].method = "GET"
                /\ log[2].url = "https://api.cont.ar/api/v2/serie/s1"
    /\ ie = "Contar" /\ status = "Assembled" =>
          /\ Len(log) = 2
          /\ log[1].url = "https://api.cont.ar/api/v2/videos/" \o result.id
          /\ log[2].url = "https://api.cont.ar/api/v2/serie/" \o result.season_id

\* A series of two seasons and three episodes resolved with one request.
C6_Witness ==
    /\ C3_SeriesDone
    /\ Len(C3_Seasons) = 2
    /\ Len(result.entries) = 3
    /\ Len(log) = 1
    /\ log[1].url = "https://api.cont.ar/api/v2/serie/s1"

---------------------------------------------------------------------------
(* Claims about every mode, under Spec. *)

\* C4: a request ends with an error or with a result, never with both.
\* A fetch that fails, by the network, by an error message or by a
\* missing data field, is the last request sent, and the request ends in
\* failure with nothing returned; a request fails only by such a fetch or
\* by missing credentials, whatever manifests could not be parsed; a
\* request that returns a result has had all its fetches answered.
C4_ErrorOrResult ==
    /\ \A i \in DOMAIN log :
          log[i].out # "returned" =>
              /\ i = Len(log)
              /\ status = "Failed"
              /\ result = Null
              /\ error # NoError
    /\ status = "Failed" =>
          /\ result = Null
          /\ error # NoError
          /\ \/ log = <<>> /\ error.kind = "login_required"
             \/ log # <<>> /\ log[Len(log)].out # "returned"
    /\ status = "Assembled" =>
          /\ error = NoError
          /\ result # Null
          /\ log # <<>>
          /\ \A i \in DOMAIN log : log[i].out = "returned"

\* The second fetch of a channel extraction is answered with an error
\* message: no playlist, though the first fetch had returned.
C4_Witness ==
    /\ ie = "ContarChannel"
    /\ status = "Failed"
    /\ Len(log) = 2
    /\ log[1].out = "returned"
    /\ log[2].out = "raised"
    /\ result = Null
    /\ error.kind = "api"

\* A channel or genre extraction has returned its playlist.
C7_ListingDone == ie \in {"ContarChannel", "ContarBrowse"} /\ status = "Assembled"

C7_IsSerie(resource) == resource.type = "SERIE"

\* The lazy reference to the series a resource stands for.
C7_Reference(resource) ==
    [_type |-> "url", url |-> "www.cont.ar/serie/" \o resource.uuid,
     id |-> resource.uuid, title |-> resource.name]

\* C7: the playlist of a channel or genre extraction has one entry for
\* each listed resource of type "SERIE" and none for any other, in the
\* order of the listing, each a reference with the id, the title and the
\* series URL of the resource; the extraction sends its own requests (two
\* for a channel, one for a genre) and none of them fetches a series.
C7_ListedSeriesAsReferences ==
    C7_ListingDone =>
        /\ Len(result.entries) = Len(SelectSeq(listing[1], C7_IsSerie))
        /\ \A i \in DOMAIN result.entries :
              result.entries[i] = C7_Reference(SelectSeq(listing[1], C7_IsSerie)[i])
        /\ Len(log) = IF ie = "ContarChannel" THEN 2 ELSE 1
        /\ \A i \in DOMAIN log :
              log[i].url \in IF ie = "ContarChannel"
                             THEN {"https://api.cont.ar/api/v2/channel/info/242",
                                   "https://api.cont.ar/api/v2/channel/series/242"}
                             ELSE {"https://api.cont.ar/api/v2/full/section/46"}

\* A channel that lists a film and a series: one reference, to the series.
C7_Witness ==
    /\ ie = "ContarChannel"
    /\ status = "Assembled"
    /\ listing = <<<<Resource("MOVIE", "m1"), Resource("SERIE", "s1")>>>>
    /\ Len(result.entries) = 1
    /\ result.entries[1].id = "s1"
    /\ result.entries[1]._type = "url"

\* C10 as stated: every request a call sends carries the headers its
\* caller supplied and, exactly when the instance holds a token, an
\* Authorization header of "Bearer " and that token; nothing else, and so
\* nothing left over from an earlier call or an earlier instance.
C10_HeadersAreTheCallersAndTheToken ==
    \A i \in DOMAIN log :
        log[i].method = "GET" =>
            log[i].headers =
                IF auth_token # ""
                THEN [k \in DOMAIN log[i].supplied \cup {"Authorization"} |->
                        IF k = "Authorization" THEN "Bearer " \o auth_token
                        ELSE log[i].supplied[k]]
                ELSE log[i].supplied

===========================================================================
